---------------------------- MODULE Spec2Model ----------------------------
(***************************************************************************)
(* tree-viewer: the depth-range language (src/cli.rs), the range-aware     *)
(* tree printer write_tree and the token printer print_tokens              *)
(* (src/main.rs).                                                          *)
(*                                                                         *)
(* Strings are sequences of one-character strings.  usize is scaled to     *)
(* UsizeBits bits; every arithmetic result is kept as a mathematical       *)
(* integer next to the operation that produced it, so that leaving         *)
(* 0..USIZE_MAX is observable.                                             *)
(***************************************************************************)
EXTENDS Integers, Sequences, FiniteSets, TLC

VARIABLES
    input,      \* the depth expression handed to DepthRange::from_str
    parsed,     \* its Result<DepthRange, String>, NotParsed before the call
    probe,      \* the last depth handed to DepthRange::contains (-1: none)
    answer,     \* what contains returned for probe
    tree,       \* the CST: tree[i] is the parent of node i, 0 for the root
    range,      \* Option<DepthRange> of write_tree
    config,     \* DisplayConfig of write_tree
    stack,      \* write_tree's call stack, innermost frame last
    output,     \* the lines written so far (write_tree's String / stdout)
    visited,    \* the nodes read so far, in the order they were read
    arith,      \* the usize operations the last call evaluated, with results
    cursor,     \* print_tokens' TreeCursor position
    flags,      \* print_tokens' hide_range and show_text
    pc          \* which routine runs and where it is

vars == << input, parsed, probe, answer, tree, range, config, stack, output,
           visited, arith, cursor, flags, pc >>

parseVars == << input, parsed, probe, answer >>
treeVars  == << tree, range, config, stack, output, visited, arith, cursor, flags >>

------------------------------------------------------------------------------
(* Bounds of the model *)

UsizeBits == 4
MaxLen == 5
MaxNodes == 4
MaxBound == 2

USIZE_MAX == 2 ^ UsizeBits - 1
Usize == 0 .. USIZE_MAX

(* The characters depth expressions are drawn from: three digits, the two  *)
(* separator characters, the sign str::parse accepts and one other.        *)
Chars == {"0", "1", "7", ".", "=", "+", "a"}
Strs == UNION {[1 .. n -> Chars] : n \in 0 .. MaxLen}

------------------------------------------------------------------------------
(* Endpoint and DepthRange *)

Inclusive(n) == [kind |-> "Inclusive", n |-> n]
Exclusive(n) == [kind |-> "Exclusive", n |-> n]

Ok(s, e) == [ok |-> TRUE, start |-> s, end |-> e]
Err(msg) == [ok |-> FALSE, err |-> msg]
NotParsed == [ok |-> FALSE, err |-> "not parsed"]

------------------------------------------------------------------------------
(* str primitives used by from_str *)

DigitChars == {"0", "1", "2", "3", "4", "5", "6", "7", "8", "9"}

DigitVal(c) ==
    CASE c = "0" -> 0 [] c = "1" -> 1 [] c = "2" -> 2 [] c = "3" -> 3
      [] c = "4" -> 4 [] c = "5" -> 5 [] c = "6" -> 6 [] c = "7" -> 7
      [] c = "8" -> 8 [] c = "9" -> 9

(* The digit loop of usize::from_str: result = result * 10 + digit, each   *)
(* step checked; -1 is Err (InvalidDigit or PosOverflow).                  *)
RECURSIVE parse_digits(_, _)
parse_digits(s, acc) ==
    IF s = << >> THEN acc
    ELSE IF Head(s) \notin DigitChars THEN -1
    ELSE LET next == acc * 10 + DigitVal(Head(s))
         IN  IF next > USIZE_MAX THEN -1 ELSE parse_digits(Tail(s), next)

(* s.parse::<usize>(): empty is Err, one leading "+" is skipped, a lone    *)
(* sign is Err, "-" is no digit for an unsigned type.                      *)
parse_usize(s) ==
    IF s = << >> THEN -1
    ELSE IF Head(s) = "+"
         THEN IF Tail(s) = << >> THEN -1 ELSE parse_digits(Tail(s), 0)
         ELSE parse_digits(s, 0)

starts_with(s, pat) ==
    Len(s) >= Len(pat) /\ SubSeq(s, 1, Len(pat)) = pat

ends_with(s, pat) ==
    Len(s) >= Len(pat) /\ SubSeq(s, Len(s) - Len(pat) + 1, Len(s)) = pat

(* Index of the first occurrence of pat in s, 0 when there is none. *)
find(s, pat) ==
    LET hits == {i \in 1 .. Len(s) - Len(pat) + 1 :
                    SubSeq(s, i, i + Len(pat) - 1) = pat}
    IN  IF hits = {} THEN 0 ELSE CHOOSE i \in hits : \A j \in hits : i <= j

str_contains(s, pat) == find(s, pat) # 0

(* s.split(pat).collect(): every non-overlapping match, left to right. *)
RECURSIVE split(_, _)
split(s, pat) ==
    LET i == find(s, pat)
    IN  IF i = 0 THEN << s >>
        ELSE << SubSeq(s, 1, i - 1) >>
                 \o split(SubSeq(s, i + Len(pat), Len(s)), pat)

DotDot == << ".", "." >>
DotDotEq == << ".", ".", "=" >>

------------------------------------------------------------------------------
(* DepthRange::from_str *)

(* Mutant: the two-character separator is looked for first. *)
DetectSeparator_ExclusiveFirst(s) ==
    IF str_contains(s, DotDot)
    THEN [found |-> TRUE, parts |-> split(s, DotDot), end_inclusive |-> FALSE]
    ELSE IF str_contains(s, DotDotEq)
    THEN [found |-> TRUE, parts |-> split(s, DotDotEq), end_inclusive |-> TRUE]
    ELSE [found |-> FALSE, parts |-> << >>, end_inclusive |-> FALSE]

DetectSeparator(s) ==
    IF str_contains(s, DotDotEq)
    THEN [found |-> TRUE, parts |-> split(s, DotDotEq), end_inclusive |-> TRUE]
    ELSE IF str_contains(s, DotDot)
    THEN [found |-> TRUE, parts |-> split(s, DotDot), end_inclusive |-> FALSE]
    ELSE [found |-> FALSE, parts |-> << >>, end_inclusive |-> FALSE]

EndOf(end_inclusive, end_num) ==
    IF end_inclusive THEN Inclusive(end_num) ELSE Exclusive(end_num)

OpenStart(parts, end_inclusive) ==
    LET end_num == parse_usize(parts[Len(parts)])
    IN  IF end_num < 0 THEN Err("Invalid end number")
        ELSE Ok(Inclusive(0), EndOf(end_inclusive, end_num))

(* Mutant: the open end is the exclusive maximum. *)
OpenEnd_ExclusiveMax(parts) ==
    LET start_num == parse_usize(parts[1])
    IN  IF start_num < 0 THEN Err("Invalid start number")
        ELSE Ok(Inclusive(start_num), Exclusive(USIZE_MAX))

OpenEnd(parts) ==
    LET start_num == parse_usize(parts[1])
    IN  IF start_num < 0 THEN Err("Invalid start number")
        ELSE Ok(Inclusive(start_num), Inclusive(USIZE_MAX))

(* Mutant: the order of the two numbers is not checked. *)
Bounded_Unordered(parts, end_inclusive) ==
    LET start_num == parse_usize(parts[1])
        end_num == parse_usize(parts[2])
    IN  IF start_num < 0 THEN Err("Invalid start number")
        ELSE IF end_num < 0 THEN Err("Invalid end number")
        ELSE Ok(Inclusive(start_num), EndOf(end_inclusive, end_num))

Bounded(parts, end_inclusive) ==
    LET start_num == parse_usize(parts[1])
        end_num == parse_usize(parts[2])
    IN  IF start_num < 0 THEN Err("Invalid start number")
        ELSE IF end_num < 0 THEN Err("Invalid end number")
        ELSE IF start_num > end_num
        THEN Err("Start must be less than or equal to end")
        ELSE Ok(Inclusive(start_num), EndOf(end_inclusive, end_num))

from_str(s) ==
    LET single == parse_usize(s)
        sep == DetectSeparator(s)
    IN  IF single >= 0 THEN Ok(Inclusive(single), Inclusive(single))
        ELSE IF ~sep.found THEN Err("Invalid range format")
        ELSE IF starts_with(s, DotDot)
        THEN OpenStart(sep.parts, sep.end_inclusive)
        ELSE IF ends_with(s, DotDot) THEN OpenEnd(sep.parts)
        ELSE IF Len(sep.parts) = 2
        THEN Bounded(sep.parts, sep.end_inclusive)
        ELSE Err("Invalid range format")

(* DepthRange::contains *)
contains(r, depth) ==
    LET start_ok == IF r.start.kind = "Inclusive"
                    THEN depth >= r.start.n ELSE depth > r.start.n
        end_ok == IF r.end.kind = "Inclusive"
                  THEN depth <= r.end.n ELSE depth < r.end.n
    IN  start_ok /\ end_ok

------------------------------------------------------------------------------
(* Values of the variables a specification does not use *)

NoTree == << >>
NoRange == [some |-> FALSE]
NoConfig == [show_range |-> FALSE, show_all_text |-> FALSE,
             show_node_text |-> FALSE, show_token_text |-> FALSE,
             show_node_type |-> FALSE]
NoFlags == [hide_range |-> FALSE, show_text |-> FALSE]

IdleParse ==
    /\ input = << >>
    /\ parsed = NotParsed
    /\ probe = -1
    /\ answer = FALSE

IdleTree ==
    /\ tree = NoTree
    /\ range = NoRange
    /\ config = NoConfig
    /\ stack = << >>
    /\ output = << >>
    /\ visited = << >>
    /\ arith = << >>
    /\ cursor = 0
    /\ flags = NoFlags

------------------------------------------------------------------------------
(* The depth option: clap hands the text to from_str, tests probe contains *)

InitParse ==
    /\ input \in Strs
    /\ parsed = NotParsed
    /\ probe = -1
    /\ answer = FALSE
    /\ IdleTree
    /\ pc = "from_str"

FromStr ==
    /\ pc = "from_str"
    /\ parsed' = from_str(input)
    /\ pc' = "parsed"
    /\ UNCHANGED << input, probe, answer >>
    /\ UNCHANGED treeVars

Contains ==
    /\ pc = "parsed"
    /\ parsed.ok
    /\ \E depth \in Usize :
          /\ probe' = depth
          /\ answer' = contains(parsed, depth)
    /\ UNCHANGED << input, parsed, pc >>
    /\ UNCHANGED treeVars

NextParse == FromStr \/ Contains

SpecParse == InitParse /\ [][NextParse]_vars

------------------------------------------------------------------------------
(* The CST and the parser's navigation (postgresql_cst_parser::tree_sitter) *)
(* A tree is the sequence of its nodes' parents: node 1 is the root, and   *)
(* the children of a node are ordered by their number.                     *)

Trees ==
    UNION {{t \in [1 .. n -> 0 .. n - 1] :
               t[1] = 0 /\ \A i \in 2 .. n : t[i] >= 1 /\ t[i] < i}
           : n \in 1 .. MaxNodes}

Nodes(t) == 1 .. Len(t)
Root == 1

children(t, n) == {c \in Nodes(t) : t[c] = n}

child_count(t, n) == Cardinality(children(t, n))

(* The node goto_first_child moves to, 0 when it returns false *)
first_child(t, n) ==
    IF children(t, n) = {} THEN 0
    ELSE CHOOSE c \in children(t, n) : \A d \in children(t, n) : c <= d

(* The node goto_next_sibling moves to, 0 when it returns false *)
next_sibling(t, n) ==
    LET later == {c \in Nodes(t) : t[c] = t[n] /\ c > n}
    IN  IF t[n] = 0 \/ later = {} THEN 0
        ELSE CHOOSE c \in later : \A d \in later : c <= d

(* The node goto_parent moves to, 0 when it returns false *)
parent(t, n) == t[n]

NodeChar(n) == << "1", "2", "3", "4", "5", "6", "7", "8", "9" >>[n]

kind(n) == << "K", NodeChar(n) >>

range_text(n) == << "[", NodeChar(n), "]" >>

(* Even nodes end their text with a line feed. *)
text(n) == IF n % 2 = 0 THEN << "s", "\n" >> ELSE << "s", NodeChar(n) >>

(* str::escape_debug, on the characters the texts hold *)
RECURSIVE escape_debug(_)
escape_debug(s) ==
    IF s = << >> THEN << >>
    ELSE (CASE Head(s) = "\n" -> << "\\", "n" >>
            [] Head(s) = "\"" -> << "\\", "\"" >>
            [] Head(s) = "\\" -> << "\\", "\\" >>
            [] OTHER -> << Head(s) >>)
         \o escape_debug(Tail(s))

------------------------------------------------------------------------------
(* DisplayConfig *)

Configs ==
    [show_range : BOOLEAN, show_all_text : BOOLEAN, show_node_text : BOOLEAN,
     show_token_text : BOOLEAN, show_node_type : BOOLEAN]

(* Mutant: a token's text is also shown by show_all_text. *)
should_show_text_AllCoversTokens(cfg, is_token) ==
    IF is_token THEN cfg.show_token_text \/ cfg.show_all_text
    ELSE cfg.show_all_text \/ cfg.show_node_text

should_show_text(cfg, is_token) ==
    IF is_token THEN cfg.show_token_text
    ELSE cfg.show_all_text \/ cfg.show_node_text

------------------------------------------------------------------------------
(* write_tree *)

INDENT_SIZE == 2

Some(r) == [some |-> TRUE, start |-> r.start, end |-> r.end]

should_print(depth, rng) ==
    IF ~rng.some THEN TRUE ELSE contains(rng, depth)

Wrap(v) == v % (2 ^ UsizeBits)

(* One usize operation: its operands and its mathematical result *)
Op(name, a, b, val) == [op |-> name, a |-> a, b |-> b, val |-> val]

RECURSIVE repeat(_, _)
repeat(c, n) == IF n <= 0 THEN << >> ELSE << c >> \o repeat(c, n - 1)

(* Mutant: absolute mode, the range does not move the base. *)
base_depth_Absolute(rng) == 0

(* The base depth as the code computes it, before it is stored in a usize *)
base_depth(rng) ==
    IF ~rng.some THEN 0
    ELSE IF rng.start.kind = "Inclusive" THEN rng.start.n
    ELSE rng.start.n + 1

relative_depth(depth, base) == IF depth > base THEN depth - base ELSE 0

(* Mutant: the dash ladder is written without asking relative_depth > 0. *)
indentation_Unguarded(depth, rng) ==
    LET base == Wrap(base_depth(rng))
        rel == relative_depth(depth, base)
        width == (rel - 1) * INDENT_SIZE
        ops == (IF rng.some /\ rng.start.kind = "Exclusive"
                THEN << Op("start + 1", rng.start.n, 1, base_depth(rng)) >> ELSE << >>)
               \o (IF depth > 0 /\ depth > base
                   THEN << Op("depth - base_depth", depth, base, depth - base) >> ELSE << >>)
               \o (IF depth > 0
                   THEN << Op("relative_depth - 1", rel, 1, rel - 1),
                           Op("* INDENT_SIZE", rel - 1, INDENT_SIZE, width) >>
                   ELSE << >>)
    IN  [prefix |-> IF depth > 0
                    THEN repeat("-", Wrap(Wrap(rel - 1) * INDENT_SIZE)) \o << "-", "+" >>
                    ELSE << >>,
         ops |-> ops]

(* The prefix of a displayed node's line, with every usize operation the   *)
(* code evaluates for it and that operation's mathematical result.         *)
indentation(depth, rng) ==
    LET base == Wrap(base_depth(rng))
        rel == relative_depth(depth, base)
        width == (rel - 1) * INDENT_SIZE
        ops == (IF rng.some /\ rng.start.kind = "Exclusive"
                THEN << Op("start + 1", rng.start.n, 1, base_depth(rng)) >> ELSE << >>)
               \o (IF depth > 0 /\ depth > base
                   THEN << Op("depth - base_depth", depth, base, depth - base) >> ELSE << >>)
               \o (IF depth > 0 /\ rel > 0
                   THEN << Op("relative_depth - 1", rel, 1, rel - 1),
                           Op("* INDENT_SIZE", rel - 1, INDENT_SIZE, width) >>
                   ELSE << >>)
    IN  [prefix |-> IF depth > 0 /\ rel > 0
                    THEN repeat("-", Wrap(width)) \o << "-", "+" >>
                    ELSE << >>,
         ops |-> ops]

is_token(t, n) == child_count(t, n) = 0

(* Everything write_tree writes for a displayed node after the prefix *)
node_fields(t, n, cfg) ==
    kind(n)
    \o (IF cfg.show_node_type
        THEN << " ", "(" >>
             \o (IF is_token(t, n) THEN << "T", "o", "k", "e", "n" >>
                 ELSE << "N", "o", "d", "e" >>)
             \o << ")" >>
        ELSE << >>)
    \o (IF cfg.show_range THEN << " " >> \o range_text(n) ELSE << >>)
    \o (IF should_show_text(cfg, is_token(t, n))
        THEN << " ", "\"" >> \o escape_debug(text(n)) \o << "\"" >>
        ELSE << >>)

Line(n, chars) == [node |-> n, text |-> chars]

Frame(n, depth, at, cur) == [node |-> n, depth |-> depth, at |-> at, cursor |-> cur]

Top == stack[Len(stack)]
Pop(stk) == SubSeq(stk, 1, Len(stk) - 1)

Overflowed(ops) == \E i \in 1 .. Len(ops) : ops[i].val \notin Usize

(* Builds with overflow checks panic on an overflow, the others wrap. *)
Builds == {"checked", "wrapping"}

(* The body of write_tree up to the cursor: the line of a displayed node. *)
(* next_stack is the call stack once the body went on.                     *)
WriteNode(next_stack) ==
    LET f == Top
        shown == should_print(f.depth, range)
        ind == indentation(f.depth, range)
    IN  /\ visited' = Append(visited, f.node)
        /\ arith' = IF shown THEN ind.ops ELSE << >>
        /\ \E build \in Builds :
              IF shown /\ Overflowed(ind.ops) /\ build = "checked"
              THEN /\ pc' = "panicked"
                   /\ UNCHANGED << stack, output >>
              ELSE /\ output' = IF shown
                                THEN Append(output,
                                       Line(f.node, ind.prefix \o node_fields(tree, f.node, config)))
                                ELSE output
                   /\ stack' = next_stack
                   /\ pc' = IF next_stack = << >> THEN "done" ELSE pc

(* Mutant: a node that is not displayed is not descended into. *)
WriteNodeDescend_Pruned ==
    /\ pc = "write_tree"
    /\ Top.at = "entry"
    /\ first_child(tree, Top.node) # 0
    /\ LET f == Top
           c == first_child(tree, f.node)
       IN  IF should_print(f.depth, range)
           THEN WriteNode(Pop(stack)
                   \o << Frame(f.node, f.depth, "loop", c),
                         Frame(c, f.depth + 1, "entry", 0) >>)
           ELSE WriteNode(Pop(stack))
    /\ UNCHANGED << tree, range, config, cursor, flags >>
    /\ UNCHANGED parseVars

(* write_tree on a node with children: its line, then the call on the      *)
(* first child.                                                            *)
WriteNodeDescend ==
    /\ pc = "write_tree"
    /\ Top.at = "entry"
    /\ first_child(tree, Top.node) # 0
    /\ LET f == Top
           c == first_child(tree, f.node)
       IN  WriteNode(Pop(stack)
               \o << Frame(f.node, f.depth, "loop", c),
                     Frame(c, f.depth + 1, "entry", 0) >>)
    /\ UNCHANGED << tree, range, config, cursor, flags >>
    /\ UNCHANGED parseVars

(* write_tree on a leaf: its line, then Ok(()) *)
WriteNodeLeaf ==
    /\ pc = "write_tree"
    /\ Top.at = "entry"
    /\ first_child(tree, Top.node) = 0
    /\ WriteNode(Pop(stack))
    /\ UNCHANGED << tree, range, config, cursor, flags >>
    /\ UNCHANGED parseVars

(* The call on a child returned and the cursor moves to the next sibling:  *)
(* the call on that sibling.                                               *)
NextSibling ==
    /\ pc = "write_tree"
    /\ Top.at = "loop"
    /\ next_sibling(tree, Top.cursor) # 0
    /\ LET f == Top
           s == next_sibling(tree, f.cursor)
       IN  stack' = Pop(stack)
               \o << Frame(f.node, f.depth, "loop", s),
                     Frame(s, f.depth + 1, "entry", 0) >>
    /\ UNCHANGED << tree, range, config, output, visited, arith, cursor, flags, pc >>
    /\ UNCHANGED parseVars

(* The call on the last child returned: break, Ok(()) *)
LastSibling ==
    /\ pc = "write_tree"
    /\ Top.at = "loop"
    /\ next_sibling(tree, Top.cursor) = 0
    /\ stack' = Pop(stack)
    /\ pc' = IF Len(stack) = 1 THEN "done" ELSE pc
    /\ UNCHANGED << tree, range, config, output, visited, arith, cursor, flags >>
    /\ UNCHANGED parseVars

Endpoints(vals) ==
    {Inclusive(n) : n \in vals} \cup {Exclusive(n) : n \in vals}

Ranges(vals) ==
    {NoRange} \cup {Some(Ok(s, e)) : s \in Endpoints(vals), e \in Endpoints(vals)}

(* print_tree(root_node, 0, &depth, &config): the bounds of the range are   *)
(* small depths or usize::MAX, the end of "n.."                            *)
InitTree ==
    /\ IdleParse
    /\ tree \in Trees
    /\ range \in Ranges((0 .. MaxBound) \cup {USIZE_MAX})
    /\ config \in Configs
    /\ stack = << Frame(Root, 0, "entry", 0) >>
    /\ output = << >>
    /\ visited = << >>
    /\ arith = << >>
    /\ cursor = 0
    /\ flags = NoFlags
    /\ pc = "write_tree"

NextTree == WriteNodeDescend \/ WriteNodeLeaf \/ NextSibling \/ LastSibling

SpecTree == InitTree /\ [][NextTree]_vars

(* write_tree on one leaf at any depth, under any DepthRange value *)
InitIndent ==
    /\ IdleParse
    /\ tree = << 0 >>
    /\ range \in Ranges(Usize)
    /\ config = NoConfig
    /\ \E depth \in Usize : stack = << Frame(Root, depth, "entry", 0) >>
    /\ output = << >>
    /\ visited = << >>
    /\ arith = << >>
    /\ cursor = 0
    /\ flags = NoFlags
    /\ pc = "write_tree"

NextIndent == WriteNodeLeaf

SpecIndent == InitIndent /\ [][NextIndent]_vars

------------------------------------------------------------------------------
(* print_tokens *)

FlagSets == [hide_range : BOOLEAN, show_text : BOOLEAN]

(* Mutant: a node with a single child is taken for a token too. *)
is_leaf_OneChild(t, n) == child_count(t, n) <= 1

is_leaf(t, n) == child_count(t, n) = 0

token_line(n, fl) ==
    kind(n)
    \o (IF ~fl.hide_range THEN << "@" >> \o range_text(n) ELSE << >>)
    \o (IF fl.show_text
        THEN << " ", "\"" >> \o escape_debug(text(n)) \o << "\"" >>
        ELSE << >>)

(* The head of the loop: read the node under the cursor, print it when it  *)
(* is a token, and descend to its first child when it has one.             *)
TokRead ==
    /\ pc = "tok_read"
    /\ visited' = Append(visited, cursor)
    /\ output' = IF is_leaf(tree, cursor)
                 THEN Append(output, Line(cursor, token_line(cursor, flags)))
                 ELSE output
    /\ IF first_child(tree, cursor) # 0
       THEN cursor' = first_child(tree, cursor) /\ pc' = "tok_read"
       ELSE cursor' = cursor /\ pc' = "tok_sibling"
    /\ UNCHANGED << tree, range, config, stack, arith, flags >>
    /\ UNCHANGED parseVars

(* goto_next_sibling succeeded: the while loop ends, back to the head *)
TokNextSibling ==
    /\ pc = "tok_sibling"
    /\ next_sibling(tree, cursor) # 0
    /\ cursor' = next_sibling(tree, cursor)
    /\ pc' = "tok_read"
    /\ UNCHANGED << tree, range, config, stack, output, visited, arith, flags >>
    /\ UNCHANGED parseVars

(* Mutant: after ascending, the loop goes back to its head. *)
TokParent_Reread ==
    /\ pc = "tok_sibling"
    /\ next_sibling(tree, cursor) = 0
    /\ parent(tree, cursor) # 0
    /\ cursor' = parent(tree, cursor)
    /\ pc' = "tok_read"
    /\ UNCHANGED << tree, range, config, stack, output, visited, arith, flags >>
    /\ UNCHANGED parseVars

(* goto_next_sibling failed and goto_parent succeeded: the while loop asks *)
(* the parent for its next sibling.                                        *)
TokParent ==
    /\ pc = "tok_sibling"
    /\ next_sibling(tree, cursor) = 0
    /\ parent(tree, cursor) # 0
    /\ cursor' = parent(tree, cursor)
    /\ pc' = "tok_sibling"
    /\ UNCHANGED << tree, range, config, stack, output, visited, arith, flags >>
    /\ UNCHANGED parseVars

(* goto_next_sibling and goto_parent both failed: return *)
TokReturn ==
    /\ pc = "tok_sibling"
    /\ next_sibling(tree, cursor) = 0
    /\ parent(tree, cursor) = 0
    /\ pc' = "done"
    /\ UNCHANGED << tree, range, config, stack, output, visited, arith, cursor, flags >>
    /\ UNCHANGED parseVars

(* print_tokens(root_node, hide_range, !hide_text) *)
InitTokens ==
    /\ IdleParse
    /\ tree \in Trees
    /\ range = NoRange
    /\ config = NoConfig
    /\ stack = << >>
    /\ output = << >>
    /\ visited = << >>
    /\ arith = << >>
    /\ cursor = Root
    /\ flags \in FlagSets
    /\ pc = "tok_read"

NextTokens == TokRead \/ TokNextSibling \/ TokParent \/ TokReturn

SpecTokens == InitTokens /\ [][NextTokens]_vars

(* The loop is straight-line code of one thread: it keeps running. *)
SpecTokensFair == SpecTokens /\ WF_vars(NextTokens)

------------------------------------------------------------------------------
(* Reading a depth expression independently of from_str *)

(* s[m..n], empty when the indices leave s *)
Mid(s, m, n) == IF m >= 1 /\ m <= n /\ n <= Len(s) THEN SubSeq(s, m, n) ELSE << >>

From(s, m) == Mid(s, m, Len(s))

AllDigits(x) == Len(x) > 0 /\ \A i \in 1 .. Len(x) : x[i] \in DigitChars

RECURSIVE DecValue(_)
DecValue(x) ==
    IF x = << >> THEN 0
    ELSE DecValue(SubSeq(x, 1, Len(x) - 1)) * 10 + DigitVal(x[Len(x)])

(* a non-negative integer literal that fits usize *)
IsLiteral(x) == AllDigits(x) /\ DecValue(x) <= USIZE_MAX

Probed == pc = "parsed" /\ probe >= 0

(* input = n ".." m, split after the i-th character *)
IsExclusiveForm(i) ==
    /\ IsLiteral(Mid(input, 1, i))
    /\ Mid(input, i + 1, i + 2) = DotDot
    /\ IsLiteral(From(input, i + 3))

(* input = n "..=" m, split after the i-th character *)
IsInclusiveForm(i) ==
    /\ IsLiteral(Mid(input, 1, i))
    /\ Mid(input, i + 1, i + 3) = DotDotEq
    /\ IsLiteral(From(input, i + 4))

(* C1: "n" parses to Inclusive(n)..Inclusive(n) and contains k iff k = n;  *)
(* "n..m" with n <= m parses to Inclusive(n)..Exclusive(m) and contains k  *)
(* iff n <= k < m; "n..=m" with n <= m parses to Inclusive(n)..Inclusive(m)*)
(* and contains k iff n <= k <= m.                                         *)
C1_ParseThenContains ==
    pc = "parsed" =>
      /\ IsLiteral(input) =>
            LET n == DecValue(input)
            IN  /\ parsed = Ok(Inclusive(n), Inclusive(n))
                /\ Probed => (answer <=> probe = n)
      /\ \A i \in 1 .. Len(input) :
            /\ IsExclusiveForm(i) =>
                  LET n == DecValue(Mid(input, 1, i))
                      m == DecValue(From(input, i + 3))
                  IN  n <= m =>
                        /\ parsed = Ok(Inclusive(n), Exclusive(m))
                        /\ Probed => (answer <=> (n <= probe /\ probe < m))
            /\ IsInclusiveForm(i) =>
                  LET n == DecValue(Mid(input, 1, i))
                      m == DecValue(From(input, i + 4))
                  IN  n <= m =>
                        /\ parsed = Ok(Inclusive(n), Inclusive(m))
                        /\ Probed => (answer <=> (n <= probe /\ probe <= m))

(* "1..=7" was parsed and contains(7) answered true *)
C1_Witness ==
    /\ pc = "parsed"
    /\ input = << "1", ".", ".", "=", "7" >>
    /\ parsed.ok
    /\ probe = 7
    /\ answer

(* C2: "..m" parses exactly as "0..m" and "..=m" exactly as "0..=m", and   *)
(* answers contains alike; "n.." contains k iff k >= n, usize::MAX too.    *)
C2_OmittedBoundIsExtreme ==
    pc = "parsed" =>
      /\ (starts_with(input, DotDot) /\ IsLiteral(From(input, 3))) =>
            /\ parsed = Ok(Inclusive(0), Exclusive(DecValue(From(input, 3))))
            /\ parsed = from_str(<< "0" >> \o input)
            /\ Probed => (answer <=> contains(from_str(<< "0" >> \o input), probe))
      /\ (starts_with(input, DotDotEq) /\ IsLiteral(From(input, 4))) =>
            /\ parsed = Ok(Inclusive(0), Inclusive(DecValue(From(input, 4))))
            /\ parsed = from_str(<< "0" >> \o input)
            /\ Probed => (answer <=> contains(from_str(<< "0" >> \o input), probe))
      /\ (ends_with(input, DotDot) /\ IsLiteral(Mid(input, 1, Len(input) - 2))) =>
            /\ parsed.ok
            /\ Probed => (answer <=> probe >= DecValue(Mid(input, 1, Len(input) - 2)))

(* "1.." was parsed and contains(usize::MAX) answered true *)
C2_Witness ==
    /\ pc = "parsed"
    /\ input = << "1", ".", "." >>
    /\ parsed.ok
    /\ probe = USIZE_MAX
    /\ answer

(* what the integer parser takes, or nothing *)
IsNumber(x) == parse_usize(x) >= 0
IsNumberOrEmpty(x) == x = << >> \/ IsNumber(x)

(* one of n, n..m, n..=m, ..m, ..=m, n.. *)
IsRecognizedForm(s) ==
    \/ IsNumber(s)
    \/ \E i \in 0 .. Len(s) :
          /\ IsNumberOrEmpty(Mid(s, 1, i))
          /\ Mid(s, i + 1, i + 2) = DotDot
          /\ IsNumberOrEmpty(From(s, i + 3))
          /\ ~(i = 0 /\ From(s, i + 3) = << >>)
    \/ \E i \in 0 .. Len(s) :
          /\ IsNumberOrEmpty(Mid(s, 1, i))
          /\ Mid(s, i + 1, i + 3) = DotDotEq
          /\ IsNumber(From(s, i + 4))

(* C3: from_str returns Ok only for the six recognized forms; everything   *)
(* else, an expression with a second separator included, is an error.      *)
C3_OnlyRecognizedFormsParse ==
    (pc = "parsed" /\ parsed.ok) => IsRecognizedForm(input)

(* C4: an Ok range has start value <= end value, and a bounded expression  *)
(* whose first number exceeds its second is an error.                      *)
C4_StartNotAboveEnd ==
    pc = "parsed" =>
      /\ parsed.ok => parsed.start.n <= parsed.end.n
      /\ \A i \in 1 .. Len(input) :
            /\ (IsExclusiveForm(i)
                  /\ DecValue(Mid(input, 1, i)) > DecValue(From(input, i + 3)))
                 => ~parsed.ok
            /\ (IsInclusiveForm(i)
                  /\ DecValue(Mid(input, 1, i)) > DecValue(From(input, i + 4)))
                 => ~parsed.ok

(* "7..1" was rejected for its order *)
C4_Witness ==
    /\ pc = "parsed"
    /\ input = << "7", ".", ".", "1" >>
    /\ parsed = Err("Start must be less than or equal to end")

------------------------------------------------------------------------------
(* The tree read independently of the two printers *)

RECURSIVE Depth(_, _)
Depth(t, n) == IF t[n] = 0 THEN 0 ELSE 1 + Depth(t, t[n])

RECURSIVE Preorder(_, _), PreorderFrom(_, _, _)
Preorder(t, n) == << n >> \o PreorderFrom(t, n, 1)
PreorderFrom(t, n, c) ==
    IF c > Len(t) THEN << >>
    ELSE (IF t[c] = n THEN Preorder(t, c) ELSE << >>) \o PreorderFrom(t, n, c + 1)

IsPrefixOf(a, b) == Len(a) <= Len(b) /\ a = SubSeq(b, 1, Len(a))

NoDuplicates(s) == \A i, j \in 1 .. Len(s) : s[i] = s[j] => i = j

NodesOf(lines) == [i \in 1 .. Len(lines) |-> lines[i].node]

(* the depth satisfies both bounds of the range, or there is no range *)
Satisfies(rng, d) ==
    \/ ~rng.some
    \/ /\ (rng.start.kind = "Inclusive" => d >= rng.start.n)
       /\ (rng.start.kind = "Exclusive" => d > rng.start.n)
       /\ (rng.end.kind = "Inclusive" => d <= rng.end.n)
       /\ (rng.end.kind = "Exclusive" => d < rng.end.n)

InRangeNode(n) == Satisfies(range, Depth(tree, n))

LeafNode(n) == \A c \in 1 .. Len(tree) : tree[c] # n

(* C5: write_tree reads the nodes in depth-first pre-order, each once,     *)
(* whatever the range hides, and has written exactly one line for each     *)
(* node read whose depth satisfies the range, in that order; when it       *)
(* returns it has read every node.                                         *)
C5_LinesAreInRangeNodesInPreorder ==
    pc \in {"write_tree", "done"} =>
      /\ NoDuplicates(visited)
      /\ IsPrefixOf(visited, Preorder(tree, Root))
      /\ NodesOf(output) = SelectSeq(visited, InRangeNode)
      /\ pc = "done" => visited = Preorder(tree, Root)

(* the chain root - child - grandchild under the range "2": only the       *)
(* grandchild's line was written                                           *)
C5_Witness ==
    /\ pc = "done"
    /\ tree = << 0, 1, 2 >>
    /\ range = Some(Ok(Inclusive(2), Inclusive(2)))
    /\ NodesOf(output) = << 3 >>

(* the optional fields of a node's line, in the order of the claim *)
ExpectedFields(n) ==
    (IF config.show_node_type
     THEN IF LeafNode(n) THEN << " ", "(", "T", "o", "k", "e", "n", ")" >>
          ELSE << " ", "(", "N", "o", "d", "e", ")" >>
     ELSE << >>)
    \o (IF config.show_range THEN << " " >> \o range_text(n) ELSE << >>)
    \o (IF \/ LeafNode(n) /\ config.show_token_text
           \/ ~LeafNode(n) /\ (config.show_all_text \/ config.show_node_text)
        THEN << " ", "\"" >> \o escape_debug(text(n)) \o << "\"" >>
        ELSE << >>)

IsLadder(s) == \A i \in 1 .. Len(s) : s[i] \in {"-", "+"}

(* C7: after its indentation every line is the kind label followed by      *)
(* exactly the enabled fields, classification, range, quoted text, in that *)
(* order; with no flag and no range there is one line per node, the kind   *)
(* label alone after the indentation.                                      *)
C7_LineCarriesEnabledFields ==
    pc \in {"write_tree", "done"} =>
      /\ \A i \in 1 .. Len(output) :
            LET n == output[i].node
                tail == kind(n) \o ExpectedFields(n)
                cut == Len(output[i].text) - Len(tail)
            IN  /\ cut >= 0
                /\ From(output[i].text, cut + 1) = tail
                /\ IsLadder(Mid(output[i].text, 1, cut))
      /\ (pc = "done" /\ config = NoConfig /\ ~range.some) =>
            /\ Len(output) = Len(tree)
            /\ \A i \in 1 .. Len(output) :
                  From(output[i].text, Len(output[i].text) - 1) = kind(output[i].node)

(* a token's line without text next to a node's line with text, both with *)
(* classification and range                                                *)
C7_Witness ==
    /\ pc = "done"
    /\ tree = << 0, 1 >>
    /\ config = [show_range |-> TRUE, show_all_text |-> TRUE,
                 show_node_text |-> FALSE, show_token_text |-> FALSE,
                 show_node_type |-> TRUE]
    /\ Len(output) = 2

(* the effective start depth of the claim *)
EffectiveStart ==
    IF ~range.some THEN 0
    ELSE IF range.start.kind = "Inclusive" THEN range.start.n
    ELSE range.start.n + 1

PrefixLen(i) == Len(output[i].text) - Len(kind(output[i].node) \o ExpectedFields(output[i].node))

(* C9: a printed node at depth d has no prefix when d is the effective     *)
(* start depth b (and at depth 0), and otherwise (d - b - 1) * 2 dashes    *)
(* followed by "-+"; a printed child's prefix is 2 longer than its printed *)
(* parent's.                                                               *)
C9_IndentationIsRangeRelative ==
    pc \in {"write_tree", "done"} =>
      /\ \A i \in 1 .. Len(output) :
            LET n == output[i].node
                d == Depth(tree, n)
                b == EffectiveStart
            IN  /\ d >= b
                /\ PrefixLen(i) = 2 * (d - b)
                /\ Mid(output[i].text, 1, PrefixLen(i)) =
                      IF d = b THEN << >>
                      ELSE [k \in 1 .. (d - b - 1) * 2 |-> "-"] \o << "-", "+" >>
                /\ d = 0 => PrefixLen(i) = 0
      /\ \A i, j \in 1 .. Len(output) :
            tree[output[j].node] = output[i].node => PrefixLen(j) = PrefixLen(i) + 2

(* root hidden by an exclusive start 0: the child has no prefix, the       *)
(* grandchild "-+"                                                         *)
C9_Witness ==
    /\ pc = "done"
    /\ tree = << 0, 1, 2 >>
    /\ range = Some(Ok(Exclusive(0), Inclusive(2)))
    /\ NodesOf(output) = << 2, 3 >>
    /\ PrefixLen(1) = 0
    /\ PrefixLen(2) = 2

(* C10 as claimed: no usize operation of the indentation leaves            *)
(* 0..usize::MAX, for any depth and any DepthRange value.                  *)
C10_NoIndentationOverflow ==
    \A i \in 1 .. Len(arith) : arith[i].val \in Usize

(* C10 amended: start + 1, depth - base_depth and relative_depth - 1 stay  *)
(* in 0..usize::MAX for any depth and any DepthRange value; the product    *)
(* (relative_depth - 1) * INDENT_SIZE is never negative and exceeds        *)
(* usize::MAX exactly when relative_depth - 1 > usize::MAX / INDENT_SIZE.  *)
C10_OnlyTheProductCanOverflow ==
    \A i \in 1 .. Len(arith) :
        IF arith[i].op = "* INDENT_SIZE"
        THEN /\ arith[i].val >= 0
             /\ arith[i].val > USIZE_MAX <=> arith[i].a > USIZE_MAX \div INDENT_SIZE
        ELSE arith[i].val \in Usize

(* a leaf at depth 7 under an exclusive start 6: start + 1 was evaluated,  *)
(* the depth equals the base and neither subtraction was                   *)
C10_Witness ==
    /\ pc = "done"
    /\ range.some
    /\ range.start = Exclusive(6)
    /\ Len(output) = 1
    /\ arith = << Op("start + 1", 6, 1, 7) >>

(* C6: print_tokens writes one line for each leaf it read and none for an  *)
(* internal node, in the order read; when it returns the lines are the     *)
(* leaves of the tree in depth-first pre-order.                            *)
C6_OneLinePerLeafInPreorder ==
    pc \in {"tok_read", "tok_sibling", "done"} =>
      /\ NodesOf(output) = SelectSeq(visited, LeafNode)
      /\ pc = "done" => NodesOf(output) = SelectSeq(Preorder(tree, Root), LeafNode)
      /\ (pc = "done" /\ Len(tree) = 1) => Len(output) = 1

(* root with an internal child and a leaf child: lines for the two leaves  *)
C6_Witness ==
    /\ pc = "done"
    /\ tree = << 0, 1, 1, 2 >>
    /\ NodesOf(output) = << 4, 3 >>

TokensSafe ==
    pc \in {"tok_read", "tok_sibling", "done"} =>
      /\ NoDuplicates(visited)
      /\ IsPrefixOf(visited, Preorder(tree, Root))
      /\ pc = "done" =>
            /\ visited = Preorder(tree, Root)
            /\ cursor = Root
            /\ next_sibling(tree, cursor) = 0
            /\ parent(tree, cursor) = 0

(* C8: the cursor loop reads the nodes in pre-order, never one twice, it   *)
(* returns only back at the root with every node read, and it returns.     *)
C8_CursorLoopTerminates == []TokensSafe /\ <>(pc = "done")

(* returned at the root after ascending from a grandchild *)
C8_Witness ==
    /\ pc = "done"
    /\ tree = << 0, 1, 2 >>
    /\ cursor = Root
    /\ visited = << 1, 2, 3 >>

==============================================================================
